---- MODULE Spec2Model ----
(***************************************************************************)
(* A model of qpimage.QPImage (qpimage/qpimage.py): an image made of an    *)
(* amplitude and a phase layered field, kept in an HDF5 store that is      *)
(* either in memory or bound to a location on disk.                        *)
(*                                                                         *)
(* Numbers.  A pixel array is a sequence of integers.  Phases are counted  *)
(* in quarter turns (1 = pi/2), so that a full turn is 4 and the wrapped   *)
(* range [-pi, pi) is -2..1.  A complex pixel re + i*im lies on one of    *)
(* the axes (re = 0 or im = 0), where magnitude and angle are exact.       *)
(* A quotient of two amplitudes is a reduced fraction <<n, d>>.            *)
(***************************************************************************)
EXTENDS Integers, Sequences, FiniteSets, TLC

\* The number of operations of one run.
MaxSteps == 3

\* ------------------------------------------------------------------------
\* The layout of a store (qpimage.py: the groups, the attributes)
\* ------------------------------------------------------------------------

Fields == {"amplitude", "phase"}

Keys == {"ramp", "data", "fit"}

AttrNames == {"pixel_size", "wavelength", "time"}

DataTypes == {"field", "phase", "phase,amplitude", "phase,intensity"}

\* Python's None and a present value.
None == [has |-> FALSE, v |-> <<>>]

Some(x) == [has |-> TRUE, v |-> x]

NoNum == [has |-> FALSE, v |-> 0]

Num(x) == [has |-> TRUE, v |-> x]

\* A store holding nothing: no group, no dataset, no attribute.
EmptyStore ==
  [groups |-> {},
   raw    |-> [f \in Fields |-> None],
   bg     |-> [f \in Fields |-> [k \in Keys |-> None]],
   attrs  |-> [a \in AttrNames |-> NoNum]]

\* ------------------------------------------------------------------------
\* Arithmetic on pixels
\* ------------------------------------------------------------------------

AbsInt(x) == IF x < 0 THEN -x ELSE x

\* numpy.abs of a complex pixel on an axis.
np_abs(re, im) == AbsInt(re) + AbsInt(im)

\* numpy.angle of a complex pixel on an axis, in quarter turns, in (-2, 2].
np_angle(re, im) ==
  IF im > 0 THEN 1
  ELSE IF im < 0 THEN -1
  ELSE IF re < 0 THEN 2
  ELSE 0

\* numpy.sqrt of a perfect square.
np_sqrt(x) == CHOOSE r \in 0..x : r * r = x

\* A phase difference brought into [-2, 2): the nearest representative.
WrapDiff(d) == ((d + 2) % 4) - 2

\* skimage.restoration.unwrap_phase: the first pixel is kept, and every
\* later pixel is moved by whole turns to within half a turn of the pixel
\* before it.
RECURSIVE unwrap_phase(_)
unwrap_phase(s) ==
  IF Len(s) <= 1 THEN s
  ELSE LET u == unwrap_phase(SubSeq(s, 1, Len(s) - 1))
       IN  Append(u, u[Len(u)] + WrapDiff(s[Len(s)] - u[Len(u)]))

RECURSIVE Gcd(_, _)
Gcd(a, b) == IF b = 0 THEN a ELSE Gcd(b, a % b)

\* n / d for n, d >= 0: a reduced fraction; <<1, 0>> is numpy's inf
\* and <<0, 0>> its nan.
Quot(n, d) ==
  IF d = 0 THEN (IF n = 0 THEN <<0, 0>> ELSE <<1, 0>>)
  ELSE LET g == Gcd(n, d) IN <<n \div g, d \div g>>

\* ------------------------------------------------------------------------
\* Decoding (QPImage._get_amp_pha)
\* ------------------------------------------------------------------------

\* The input data of a call: a real array (a), a complex array (a + i*b)
\* or an indexable pair of real arrays (a is element 0, b is element 1).
Real(a) == [kind |-> "real", a |-> a, b |-> <<>>]

Complex(a, b) == [kind |-> "complex", a |-> a, b |-> b]

Pair(a, b) == [kind |-> "pair", a |-> a, b |-> b]

Map1(s, Op(_)) == [k \in 1..Len(s) |-> Op(s[k])]

Map2(s, t, Op(_, _)) == [k \in 1..Len(s) |-> Op(s[k], t[k])]

One(x) == 1

\* numpy.ones_like
np_ones_like(s) == Map1(s, One)

\* The amplitude a data type decodes the data to.
DecodeAmp(data, data_type) ==
  CASE data_type = "field" -> Map2(data.a, data.b, np_abs)
    [] data_type = "phase" -> np_ones_like(data.a)
    [] data_type = "phase,amplitude" -> data.b
    [] data_type = "phase,intensity" -> Map1(data.b, np_sqrt)

\* A decoding that leaves the phase as it is given, wrapped.
DecodePha_wrapped(data, data_type) ==
  IF data_type = "field" THEN Map2(data.a, data.b, np_angle) ELSE data.a

\* The phase a data type decodes the data to.
DecodePha(data, data_type) ==
  CASE data_type = "field" -> unwrap_phase(Map2(data.a, data.b, np_angle))
    [] data_type = "phase" -> unwrap_phase(data.a)
    [] data_type = "phase,amplitude" -> unwrap_phase(data.a)
    [] data_type = "phase,intensity" -> unwrap_phase(data.a)

\* A decoding that takes a data type outside the table for "phase".
get_amp_pha_lenient(data, data_type) ==
  IF data_type \notin DataTypes
  THEN [err |-> "none",
        amp |-> DecodeAmp(data, "phase"),
        pha |-> DecodePha(data, "phase")]
  ELSE [err |-> "none",
        amp |-> DecodeAmp(data, data_type),
        pha |-> DecodePha(data, data_type)]

\* _get_amp_pha: the assertion on the data type, then the table.
get_amp_pha(data, data_type) ==
  IF data_type \notin DataTypes
  THEN [err |-> "encoding", amp |-> <<>>, pha |-> <<>>]
  ELSE [err |-> "none",
        amp |-> DecodeAmp(data, data_type),
        pha |-> DecodePha(data, data_type)]

\* ------------------------------------------------------------------------
\* A layered field (image_data.Amplitude, image_data.Phase) on a store c.
\* ro: the store was opened read-only.  Every operation gives the error it
\* ends with ("none" when it succeeds) and the store it leaves.
\* ------------------------------------------------------------------------

SameShape(a, b) == Len(a) = Len(b)

\* field["raw"] = array
set_raw(c, ro, f, array) ==
  IF ro THEN [err |-> "store", c |-> c]
  ELSE IF \E k \in Keys : c.bg[f][k].has /\ ~SameShape(c.bg[f][k].v, array)
  THEN [err |-> "shape", c |-> c]
  ELSE [err |-> "none", c |-> [c EXCEPT !.raw[f] = Some(array)]]

\* field.set_bg(bg, key): bg is None (clear the component) or Some(array).
set_bg(c, ro, f, bg, key) ==
  IF key \notin Keys THEN [err |-> "key", c |-> c]
  ELSE IF ro THEN [err |-> "store", c |-> c]
  ELSE IF bg.has /\ c.raw[f].has /\ ~SameShape(c.raw[f].v, bg.v)
  THEN [err |-> "shape", c |-> c]
  ELSE [err |-> "none", c |-> [c EXCEPT !.bg[f][key] = bg]]

\* The neutral element of a field's combination: 0 for the additive phase,
\* 1 for the multiplicative amplitude.
Neutral(f) == IF f = "phase" THEN 0 ELSE 1

\* combine_op on two pixels.
Combine(f, x, y) == IF f = "phase" THEN x + y ELSE x * y

\* The fixed order the components are combined in.
KeyOrder == <<"data", "ramp", "fit">>

\* The components of KeyOrder[1..n] combined, on arrays of length len.
RECURSIVE CombineUpTo(_, _, _, _)
CombineUpTo(c, f, n, len) ==
  IF n = 0 THEN [k \in 1..len |-> Neutral(f)]
  ELSE LET rest == CombineUpTo(c, f, n - 1, len)
           comp == c.bg[f][KeyOrder[n]]
       IN  IF comp.has /\ Len(comp.v) = len
           THEN [k \in 1..len |-> Combine(f, rest[k], comp.v[k])]
           ELSE rest

\* The shape of the field's arrays: that of raw, else of a component.
FieldLen(c, f) ==
  IF c.raw[f].has THEN Len(c.raw[f].v)
  ELSE IF \E k \in Keys : c.bg[f][k].has
  THEN Len(c.bg[f][CHOOSE k \in Keys : c.bg[f][k].has].v)
  ELSE 0

\* field.bg: the combined background; the scalar neutral element when no
\* component is present.
bg(c, f) ==
  IF \A k \in Keys : ~c.bg[f][k].has
  THEN [scalar |-> TRUE, v |-> <<Neutral(f)>>]
  ELSE [scalar |-> FALSE, v |-> CombineUpTo(c, f, Len(KeyOrder), FieldLen(c, f))]

\* The background's value at pixel k.
BgAt(b, k) == IF b.scalar THEN b.v[1] ELSE b.v[k]

\* field.image: raw with the background taken out (a difference for the
\* phase, a quotient for the amplitude); an error while raw is absent.
image(c, f) ==
  IF ~c.raw[f].has THEN [err |-> "notinit", v |-> <<>>]
  ELSE LET r == c.raw[f].v
           b == bg(c, f)
       IN  [err |-> "none",
            v |-> [k \in 1..Len(r) |->
                     IF f = "phase" THEN r[k] - BgAt(b, k)
                     ELSE Quot(r[k], BgAt(b, k))]]

\* QPImage.amp, .pha, .bg_amp, .bg_pha on the image's store c.
amp(c) == image(c, "amplitude")

pha(c) == image(c, "phase")

bg_amp(c) == bg(c, "amplitude")

bg_pha(c) == bg(c, "phase")

\* ------------------------------------------------------------------------
\* The backing store (h5py.File)
\* ------------------------------------------------------------------------

\* The persistent locations and the images of a run.
Locs == {"f1"}

Imgs == {1, 2}

\* A location on disk: whether a file exists there, what it durably holds
\* (disk), and the handle open on it, if any: its mode ("closed", "r" for
\* read-only, "rw"), who opened it (an image, or 0 for a handle the caller
\* opened with h5py.File and passes on), and what is seen through it (cur).
NoFile ==
  [exists |-> FALSE, disk |-> EmptyStore, cur |-> EmptyStore,
   mode |-> "closed", owner |-> 0]

Modes == {"r", "r+", "a", "w"}

\* h5py.File(name, mode) on a location with no handle open on it.
h5py_File(file, mode, who) ==
  IF mode \in {"r", "r+"}
  THEN IF ~file.exists THEN [err |-> "store", file |-> file]
       ELSE [err |-> "none",
             file |-> [file EXCEPT !.cur = file.disk, !.owner = who,
                                   !.mode = IF mode = "r" THEN "r" ELSE "rw"]]
  ELSE IF mode = "a" /\ file.exists
  THEN [err |-> "none",
        file |-> [file EXCEPT !.cur = file.disk, !.owner = who, !.mode = "rw"]]
  ELSE [err |-> "none",
        file |-> [exists |-> TRUE, disk |-> EmptyStore, cur |-> EmptyStore,
                  mode |-> "rw", owner |-> who]]

\* File.flush(): what was written through the handle becomes durable.
h5py_flush(file) ==
  IF file.mode = "rw" THEN [file EXCEPT !.disk = file.cur] ELSE file

\* File.close(): flushes, then releases the handle.
h5py_close(file) ==
  LET f == h5py_flush(file)
  IN  [f EXCEPT !.cur = f.disk, !.mode = "closed", !.owner = 0]

\* ------------------------------------------------------------------------
\* QPImage
\* ------------------------------------------------------------------------

NoData == [has |-> FALSE, v |-> Real(<<>>)]

SomeData(d) == [has |-> TRUE, v |-> d]

NoMeta == [a \in AttrNames |-> NoNum]

\* The hdf5_file argument: None, a location, or a handle the caller opened.
NoFileArg == [kind |-> "none", loc |-> ""]

Path(loc) == [kind |-> "path", loc |-> loc]

Handle(loc) == [kind |-> "handle", loc |-> loc]

VARIABLES
  files,   \* [Locs -> location]
  mem,     \* [Imgs -> the in-memory store of the image, while it has one]
  img,     \* [Imgs -> the image object]
  last,    \* the last call: its arguments and the error it ended with
  seen,    \* [Locs -> amp and pha as read from the image that wrote it]
  steps    \* the number of calls made

vars == <<files, mem, img, last, seen, steps>>

\* An image object: whether it holds an open store, where that store is
\* ("mem" or a location), the hdf5_file and hdf5_mode it was constructed
\* with, and the image it was copied from (0: none).
NoImg ==
  [open |-> FALSE, on |-> "mem", file |-> NoFileArg, mode |-> "",
   copy_of |-> 0]

NewImg(on, file, mode, copy_of) ==
  [open |-> TRUE, on |-> on, file |-> file, mode |-> mode,
   copy_of |-> copy_of]

\* The store of image i as seen through its handle, in the state made of
\* the images im, the locations fs and the in-memory stores m.
StoreOf(im, fs, m, i) == IF im[i].on = "mem" THEN m[i] ELSE fs[im[i].on].cur

\* The store of image i as seen through its handle.
Cur(i) == StoreOf(img, files, mem, i)

\* Whether the handle of image i is read-only.
ReadOnly(i) == img[i].on # "mem" /\ files[img[i].on].mode = "r"

\* A constructor that takes the in-memory default whatever it is given.
h5kwargs_always_core(hdf5_file, hdf5_mode) ==
  [name |-> NoFileArg, driver |-> "core", mode |-> "a"]

\* A constructor that opens every location in mode "a".
h5kwargs_ignores_mode(hdf5_file, hdf5_mode) ==
  IF hdf5_file.kind = "none"
  THEN [name |-> NoFileArg, driver |-> "core", mode |-> "a"]
  ELSE [name |-> hdf5_file, driver |-> "default", mode |-> "a"]

\* __init__, lines 40-47: the arguments h5py.File is called with.
h5kwargs(hdf5_file, hdf5_mode) ==
  IF hdf5_file.kind = "none"
  THEN [name |-> NoFileArg, driver |-> "core", mode |-> "a"]
  ELSE [name |-> hdf5_file, driver |-> "default", mode |-> hdf5_mode]

\* __init__, lines 50-52: the two groups, created where missing.
create_groups(c, ro) ==
  IF Fields \subseteq c.groups THEN [err |-> "none", c |-> c]
  ELSE IF ro THEN [err |-> "store", c |-> c]
  ELSE [err |-> "none", c |-> [c EXCEPT !.groups = Fields]]

\* QPImage.set_bg_data on the store c.
set_bg_data(c, ro, bg_data, data_type) ==
  LET d == IF bg_data.has THEN get_amp_pha(bg_data.v, data_type)
           ELSE [err |-> "none", amp |-> <<>>, pha |-> <<>>]
      a == IF bg_data.has THEN Some(d.amp) ELSE None
      p == IF bg_data.has THEN Some(d.pha) ELSE None
      r1 == set_bg(c, ro, "amplitude", a, "data")
  IN  IF d.err # "none" THEN [err |-> d.err, c |-> c]
      ELSE IF r1.err # "none" THEN r1
      ELSE set_bg(r1.c, ro, "phase", p, "data")

\* __init__, lines 57-66: the raw arrays, then the background data.
set_data(c, ro, data, bg_data, data_type) ==
  IF ~data.has THEN [err |-> "none", c |-> c]
  ELSE LET d  == get_amp_pha(data.v, data_type)
           r1 == set_raw(c, ro, "amplitude", d.amp)
           r2 == set_raw(r1.c, ro, "phase", d.pha)
       IN  IF d.err # "none" THEN [err |-> d.err, c |-> c]
           ELSE IF r1.err # "none" THEN r1
           ELSE IF r2.err # "none" THEN r2
           ELSE set_bg_data(r2.c, ro, bg_data, data_type)

\* Python's truth value of an optional number: None and 0 are false.
Truthy(x) == x.has /\ x.v # 0

\* __init__, lines 68-73: one attribute.
set_attr(c, ro, name, value) ==
  IF ~Truthy(value) THEN [err |-> "none", c |-> c]
  ELSE IF ro THEN [err |-> "store", c |-> c]
  ELSE [err |-> "none", c |-> [c EXCEPT !.attrs[name] = value]]

\* __init__, lines 68-73: pixel_size, time, wavelength, in this order.
set_meta(c, ro, meta) ==
  LET r1 == set_attr(c, ro, "pixel_size", meta["pixel_size"])
      r2 == set_attr(r1.c, ro, "time", meta["time"])
  IN  IF r1.err # "none" THEN r1
      ELSE IF r2.err # "none" THEN r2
      ELSE set_attr(r2.c, ro, "wavelength", meta["wavelength"])

\* __init__ from line 50 on, on the store c it has opened.
init_body(c, ro, data, bg_data, data_type, meta) ==
  LET r1 == create_groups(c, ro)
      r2 == set_data(r1.c, ro, data, bg_data, data_type)
  IN  IF r1.err # "none" THEN r1
      ELSE IF r2.err # "none" THEN r2
      ELSE set_meta(r2.c, ro, meta)

\* The record of a call: the operation, the image it is called on, the
\* error it ends with, and its arguments (ro: the store of the image was
\* asked for read-only; to: the image a copy makes).
Call(op, i, err) ==
  [op |-> op, img |-> i, err |-> err, data |-> NoData, bg_data |-> NoData,
   data_type |-> "", names |-> <<>>, keys |-> <<>>, meta |-> NoMeta,
   file |-> NoFileArg, mode |-> "", ro |-> FALSE, to |-> 0]

InitCall(i, err, data, bg_data, data_type, hdf5_file, hdf5_mode, meta, ro) ==
  [Call("init", i, err) EXCEPT !.data = data, !.bg_data = bg_data,
     !.data_type = data_type, !.file = hdf5_file, !.mode = hdf5_mode,
     !.meta = meta, !.ro = ro]

\* The images whose store is the handle on loc lose it when it is closed;
\* an image is no longer the copy of an image that is gone.
Detach(loc) ==
  LET gone(k) == img[k].open /\ img[k].on = loc
  IN  [k \in Imgs |->
         IF gone(k) THEN NoImg
         ELSE IF img[k].copy_of \in Imgs /\ gone(img[k].copy_of)
         THEN [img[k] EXCEPT !.copy_of = 0]
         ELSE img[k]]

\* amp and pha as read from a store.
Reads(c) == [valid |-> TRUE, amp |-> amp(c), pha |-> pha(c)]

NotSeen == [Reads(EmptyStore) EXCEPT !.valid = FALSE]

\* QPImage(data, bg_data, data_type, hdf5_file=None, ...): the store is
\* the in-memory default (lines 40-44).
init_mem(i, data, bg_data, data_type, hdf5_file, hdf5_mode, meta) ==
  LET r == init_body(EmptyStore, FALSE, data, bg_data, data_type, meta)
  IN  /\ mem' = [mem EXCEPT ![i] = IF r.err = "none" THEN r.c ELSE EmptyStore]
      /\ img' = IF r.err = "none"
                THEN [img EXCEPT ![i] = NewImg("mem", hdf5_file, hdf5_mode, 0)]
                ELSE img
      /\ last' = InitCall(i, r.err, data, bg_data, data_type, hdf5_file,
                          hdf5_mode, meta,
                          hdf5_file.kind = "path" /\ hdf5_mode = "r")
      /\ UNCHANGED <<files, seen>>

\* QPImage(..., hdf5_file=<location>, hdf5_mode=...): the image opens the
\* store itself (lines 45-48).  A constructor that raises leaves no image;
\* the handle it had opened is released with the object, which writes out
\* what the constructor had stored before it failed.
init_path(i, data, bg_data, data_type, hdf5_file, hdf5_mode, mode, meta) ==
  LET loc == hdf5_file.loc
      o   == h5py_File(files[loc], mode, i)
      ro  == o.file.mode = "r"
      r   == init_body(o.file.cur, ro, data, bg_data, data_type, meta)
      f   == [o.file EXCEPT !.cur = r.c]
  IN  /\ files[loc].mode = "closed"
      /\ files' = [files EXCEPT ![loc] =
                     IF o.err # "none" THEN files[loc]
                     ELSE IF r.err # "none" THEN h5py_close(f)
                     ELSE f]
      /\ img' = IF o.err = "none" /\ r.err = "none"
                THEN [img EXCEPT ![i] = NewImg(loc, hdf5_file, hdf5_mode, 0)]
                ELSE img
      /\ seen' = IF o.err = "none" /\ ~ro
                 THEN [seen EXCEPT ![loc] = NotSeen]
                 ELSE seen
      /\ last' = InitCall(i, IF o.err # "none" THEN o.err ELSE r.err, data,
                          bg_data, data_type, hdf5_file, hdf5_mode, meta,
                          hdf5_mode = "r")
      /\ UNCHANGED mem

\* QPImage(..., hdf5_file=<open handle>): h5py.File binds to the file of
\* the handle it is given, so the image works on the caller's store.
init_handle(i, data, bg_data, data_type, hdf5_file, meta) ==
  LET loc == hdf5_file.loc
      ro  == files[loc].mode = "r"
      r   == init_body(files[loc].cur, ro, data, bg_data, data_type, meta)
  IN  /\ files[loc].mode # "closed"
      /\ files[loc].owner = 0
      /\ files' = [files EXCEPT ![loc].cur = r.c]
      /\ img' = IF r.err = "none"
                THEN [img EXCEPT ![i] =
                        NewImg(loc, hdf5_file, IF ro THEN "r" ELSE "r+", 0)]
                ELSE img
      /\ last' = InitCall(i, r.err, data, bg_data, data_type, hdf5_file,
                          "", meta, ro)
      /\ UNCHANGED <<mem, seen>>

\* A new image object takes the first free slot.
Free(i) == ~img[i].open /\ \A k \in Imgs : k < i => img[k].open

\* QPImage.__init__
QPImage_init(i, data, bg_data, data_type, hdf5_file, hdf5_mode, meta) ==
  LET kw == h5kwargs(hdf5_file, hdf5_mode)
  IN  /\ steps < MaxSteps
      /\ Free(i)
      /\ steps' = steps + 1
      /\ \/ /\ kw.driver = "core"
            /\ init_mem(i, data, bg_data, data_type, hdf5_file, hdf5_mode,
                        meta)
         \/ /\ kw.driver # "core"
            /\ kw.name.kind = "path"
            /\ init_path(i, data, bg_data, data_type, hdf5_file, hdf5_mode,
                         kw.mode, meta)
         \/ /\ kw.driver # "core"
            /\ kw.name.kind = "handle"
            /\ init_handle(i, data, bg_data, data_type, hdf5_file, meta)

\* The modes that create the file when there is none.
CreateModes == {"a", "w"}

\* __exit__, lines 79-80, on the store of image i: flush, then close.
exit_store(i) ==
  IF img[i].on = "mem"
  THEN /\ mem' = [mem EXCEPT ![i] = EmptyStore]
       /\ img' = [k \in Imgs |->
                    IF k = i THEN NoImg
                    ELSE IF img[k].copy_of = i
                    THEN [img[k] EXCEPT !.copy_of = 0]
                    ELSE img[k]]
       /\ UNCHANGED files
  ELSE /\ files' = [files EXCEPT ![img[i].on] = h5py_close(h5py_flush(@))]
       /\ img' = Detach(img[i].on)
       /\ UNCHANGED mem

\* QPImage.__exit__
QPImage_exit(i) ==
  /\ steps < MaxSteps
  /\ img[i].open
  /\ steps' = steps + 1
  /\ exit_store(i)
  /\ seen' = IF img[i].file.kind = "path" /\ img[i].mode \in CreateModes
             THEN [seen EXCEPT ![img[i].file.loc] = Reads(Cur(i))]
             ELSE seen
  /\ last' = [Call("exit", i, "none") EXCEPT !.file = img[i].file,
                !.mode = img[i].mode, !.ro = img[i].mode = "r"]

\* The store c written back through the handle of image i.
Store(i, c) ==
  IF img[i].on = "mem"
  THEN /\ mem' = [mem EXCEPT ![i] = c]
       /\ UNCHANGED files
  ELSE /\ files' = [files EXCEPT ![img[i].on].cur = c]
       /\ UNCHANGED mem

\* QPImage.set_bg_data
QPImage_set_bg_data(i, bg_data, data_type) ==
  LET r == set_bg_data(Cur(i), ReadOnly(i), bg_data, data_type)
  IN  /\ steps < MaxSteps
      /\ img[i].open
      /\ steps' = steps + 1
      /\ Store(i, r.c)
      /\ last' = [Call("set_bg_data", i, r.err) EXCEPT !.bg_data = bg_data,
                    !.data_type = data_type, !.ro = img[i].mode = "r"]
      /\ UNCHANGED <<img, seen>>

\* clear_bg, lines 180-182: set_bg(None, key) for the keys from the n-th on.
RECURSIVE clear_keys(_, _, _, _, _)
clear_keys(c, ro, f, keys, n) ==
  IF n > Len(keys) THEN [err |-> "none", c |-> c]
  ELSE LET r == set_bg(c, ro, f, None, keys[n])
       IN  IF r.err # "none" THEN r
           ELSE clear_keys(r.c, ro, f, keys, n + 1)

\* The keys clear_bg accepts (line 171).
ClearKeys == {"ramp", "data"}

\* x in the list s.
InList(s, x) == \E k \in 1..Len(s) : s[k] = x

\* QPImage.clear_bg on the store c.
clear_bg(c, ro, data_names, keys) ==
  LET r1 == IF InList(data_names, "amplitude")
            THEN clear_keys(c, ro, "amplitude", keys, 1)
            ELSE [err |-> "none", c |-> c]
  IN  IF \E k \in 1..Len(data_names) : data_names[k] \notin Fields
      THEN [err |-> "argument", c |-> c]
      ELSE IF \E k \in 1..Len(keys) : keys[k] \notin ClearKeys
      THEN [err |-> "argument", c |-> c]
      ELSE IF ~InList(data_names, "amplitude") /\ ~InList(data_names, "phase")
      THEN [err |-> "argument", c |-> c]
      ELSE IF r1.err # "none" THEN r1
      ELSE IF InList(data_names, "phase")
      THEN clear_keys(r1.c, ro, "phase", keys, 1)
      ELSE r1

\* QPImage.clear_bg
QPImage_clear_bg(i, data_names, keys) ==
  LET r == clear_bg(Cur(i), ReadOnly(i), data_names, keys)
  IN  /\ steps < MaxSteps
      /\ img[i].open
      /\ steps' = steps + 1
      /\ Store(i, r.c)
      /\ last' = [Call("clear_bg", i, r.err) EXCEPT !.names = data_names,
                    !.keys = keys, !.ro = img[i].mode = "r"]
      /\ UNCHANGED <<img, seen>>

\* The caller opens a handle of its own on a location: h5py.File(tf, mode).
h5py_open(loc, mode) ==
  LET o == h5py_File(files[loc], mode, 0)
  IN  /\ steps < MaxSteps
      /\ files[loc].mode = "closed"
      /\ o.err = "none"
      /\ steps' = steps + 1
      /\ files' = [files EXCEPT ![loc] = o.file]
      /\ seen' = IF mode # "r" THEN [seen EXCEPT ![loc] = NotSeen] ELSE seen
      /\ last' = [Call("open", 0, "none") EXCEPT !.file = Path(loc),
                    !.mode = mode]
      /\ UNCHANGED <<mem, img>>

\* The caller closes its handle (the end of its with block).
h5py_exit(loc) ==
  /\ steps < MaxSteps
  /\ files[loc].mode # "closed"
  /\ files[loc].owner = 0
  /\ steps' = steps + 1
  /\ files' = [files EXCEPT ![loc] = h5py_close(@)]
  /\ img' = Detach(loc)
  /\ last' = [Call("close", 0, "none") EXCEPT !.file = Path(loc)]
  /\ UNCHANGED <<mem, seen>>

\* A duplication that takes the raw arrays and leaves the background.
copyh5_raw_only(c) ==
  [groups |-> c.groups, raw |-> c.raw, bg |-> EmptyStore.bg,
   attrs |-> c.attrs]

\* The duplicate of a store: every group, dataset and attribute of it.
copyh5(c) ==
  [groups |-> c.groups,
   raw    |-> [f \in Fields |-> c.raw[f]],
   bg     |-> [f \in Fields |-> [k \in Keys |-> c.bg[f][k]]],
   attrs  |-> [a \in AttrNames |-> c.attrs[a]]]

\* QPImage.copy(h5file): a new image j on a store of its own (in memory, a
\* location it creates or overwrites, or the caller's open handle) that
\* holds a duplicate of every group, dataset and attribute of image i.
QPImage_copy(i, j, h5file) ==
  /\ steps < MaxSteps
  /\ img[i].open
  /\ i # j
  /\ Free(j)
  /\ steps' = steps + 1
  /\ \/ /\ h5file.kind = "none"
        /\ mem' = [mem EXCEPT ![j] = copyh5(Cur(i))]
        /\ img' = [img EXCEPT ![j] = NewImg("mem", h5file, "a", i)]
        /\ last' = [Call("copy", i, "none") EXCEPT !.file = h5file, !.to = j]
        /\ UNCHANGED <<files, seen>>
     \/ /\ h5file.kind = "path"
        /\ h5file.loc # img[i].on
        /\ files[h5file.loc].mode = "closed"
        /\ files' = [files EXCEPT ![h5file.loc] =
                       [exists |-> TRUE, disk |-> EmptyStore, cur |-> copyh5(Cur(i)),
                        mode |-> "rw", owner |-> j]]
        /\ img' = [img EXCEPT ![j] = NewImg(h5file.loc, h5file, "w", i)]
        /\ seen' = [seen EXCEPT ![h5file.loc] = NotSeen]
        /\ last' = [Call("copy", i, "none") EXCEPT !.file = h5file, !.to = j]
        /\ UNCHANGED mem
     \/ /\ h5file.kind = "handle"
        /\ h5file.loc # img[i].on
        /\ files[h5file.loc].mode # "closed"
        /\ files[h5file.loc].owner = 0
        /\ IF files[h5file.loc].mode = "r"
           THEN /\ last' = [Call("copy", i, "store") EXCEPT !.file = h5file,
                              !.ro = TRUE]
                /\ UNCHANGED <<files, img>>
           ELSE /\ files' = [files EXCEPT ![h5file.loc].cur = copyh5(Cur(i))]
                /\ img' = [img EXCEPT ![j] = NewImg(h5file.loc, h5file, "r+", i)]
                /\ last' = [Call("copy", i, "none") EXCEPT !.file = h5file,
                              !.to = j]
        /\ UNCHANGED <<mem, seen>>

\* ------------------------------------------------------------------------
\* The inputs of a run
\* ------------------------------------------------------------------------

\* Phase arrays: <<0, 3>> has a jump of more than half a turn.
RealSamples == {Real(<<1>>), Real(<<0, 3>>)}

\* A complex array: -2i and -3, of angles -1 and 2.
ComplexSamples == {Complex(<<0, -3>>, <<-2, 0>>)}

\* <<phase, amplitude>> or <<phase, intensity>>.
PairSamples == {Pair(<<0, 3>>, <<4, 9>>), Pair(<<2>>, <<1>>)}

\* The data a data type is given.
Samples(data_type) ==
  CASE data_type = "field" -> ComplexSamples
    [] data_type = "phase" -> RealSamples
    [] data_type \in {"phase,amplitude", "phase,intensity"} -> PairSamples
    [] OTHER -> RealSamples

\* The data types a caller passes: the four of the table and one more.
TypeInputs == DataTypes \cup {"intensity"}

\* data, bg_data and data_type of a call.
Input(data, bg_data, data_type) ==
  [data |-> data, bg_data |-> bg_data, data_type |-> data_type]

\* Every data and background data of the samples, under every data type;
\* no data under the default data type.
AllData ==
  {Input(NoData, NoData, "phase")} \cup
  UNION {{Input(SomeData(d), b, t) :
            d \in Samples(t),
            b \in {NoData} \cup {SomeData(x) : x \in Samples(t)}} :
         t \in TypeInputs}

\* Every background data of the samples, under every data type.
AllBgData ==
  UNION {{Input(NoData, b, t) :
            b \in {NoData} \cup {SomeData(x) : x \in Samples(t)}} :
         t \in TypeInputs}

\* pixel_size, wavelength and time: not supplied, zero, or positive.
AllMeta == [AttrNames -> {NoNum, Num(0), Num(5)}]

AllNames == {<<>>, <<"amplitude">>, <<"phase">>, <<"amplitude", "phase">>}

AllKeys ==
  {<<>>, <<"ramp">>, <<"data">>, <<"fit">>, <<"ramp", "data">>,
   <<"ramp", "fit">>, <<"data", "fit">>, <<"ramp", "data", "fit">>}

\* A file such as tests/data/bg_ramp.h5: an image with a fitted phase
\* background.
FileBgRamp ==
  [groups |-> Fields,
   raw    |-> [f \in Fields |-> IF f = "phase" THEN Some(<<1, 2>>)
                                ELSE Some(<<2, 3>>)],
   bg     |-> [f \in Fields |-> [k \in Keys |->
                 IF f = "phase" /\ k = "fit" THEN Some(<<1, 1>>) ELSE None]],
   attrs  |-> [a \in AttrNames |-> IF a = "time" THEN NoNum ELSE Num(3)]]

\* A file with every background component of both fields.
FileFull ==
  [groups |-> Fields,
   raw    |-> [f \in Fields |-> IF f = "phase" THEN Some(<<3, 5>>)
                                ELSE Some(<<4, 6>>)],
   bg     |-> [f \in Fields |-> [k \in Keys |->
                 IF f = "phase"
                 THEN (CASE k = "ramp" -> Some(<<1, 0>>)
                         [] k = "data" -> Some(<<0, 1>>)
                         [] k = "fit" -> Some(<<1, 1>>))
                 ELSE (CASE k = "ramp" -> Some(<<2, 1>>)
                         [] k = "data" -> Some(<<1, 2>>)
                         [] k = "fit" -> Some(<<2, 3>>))]],
   attrs  |-> [a \in AttrNames |-> Num(7)]]

OnDisk(c) ==
  [exists |-> TRUE, disk |-> c, cur |-> c, mode |-> "closed", owner |-> 0]

\* What a location holds before the run: nothing, a file holding nothing,
\* or one of the two files above.
FileInits == {NoFile, OnDisk(EmptyStore), OnDisk(FileBgRamp), OnDisk(FileFull)}

\* ------------------------------------------------------------------------
\* The state machines
\* ------------------------------------------------------------------------

Init ==
  /\ files \in [Locs -> FileInits]
  /\ mem = [i \in Imgs |-> EmptyStore]
  /\ img = [i \in Imgs |-> NoImg]
  /\ last = Call("start", 0, "none")
  /\ seen = [l \in Locs |-> NotSeen]
  /\ steps = 0

\* The whole life of images on every kind of store, on a few inputs.
SomeData1 ==
  {Input(NoData, NoData, "phase"),
   Input(SomeData(Real(<<1>>)), NoData, "phase"),
   Input(SomeData(Real(<<1>>)), NoData, "intensity"),
   Input(SomeData(Pair(<<0, 3>>, <<4, 9>>)),
         SomeData(Pair(<<0, 3>>, <<4, 9>>)), "phase,intensity")}

SomeBgData1 ==
  {Input(NoData, NoData, "phase"),
   Input(NoData, SomeData(Real(<<1>>)), "phase"),
   Input(NoData, SomeData(Real(<<0, 3>>)), "phase"),
   Input(NoData, NoData, "intensity"),
   Input(NoData, SomeData(Real(<<1>>)), "intensity")}

SomeMeta1 == {NoMeta, [a \in AttrNames |-> IF a = "time" THEN Num(0) ELSE Num(5)]}

SomeFiles1 ==
  {<<NoFileArg, "a">>} \cup {<<Handle(l), "a">> : l \in Locs}
  \cup {<<Path(l), m>> : l \in Locs, m \in {"r", "a", "w"}}

SomeClears1 ==
  {<<<<"phase">>, <<"data">>>>, <<<<"amplitude", "phase">>, <<"ramp", "data">>>>,
   <<<<"amplitude">>, <<"ramp">>>>, <<<<"phase">>, <<"fit">>>>}

Next ==
  \/ \E i \in Imgs, in \in SomeData1, f \in SomeFiles1, meta \in SomeMeta1 :
       QPImage_init(i, in.data, in.bg_data, in.data_type, f[1], f[2], meta)
  \/ \E i \in Imgs : QPImage_exit(i)
  \/ \E i \in Imgs, in \in SomeBgData1 :
       QPImage_set_bg_data(i, in.bg_data, in.data_type)
  \/ \E i \in Imgs, cl \in SomeClears1 : QPImage_clear_bg(i, cl[1], cl[2])
  \/ \E i \in Imgs, j \in Imgs, h5file \in {NoFileArg, Path("f1"), Handle("f1")} :
       QPImage_copy(i, j, h5file)
  \/ \E loc \in Locs, mode \in {"r", "a"} : h5py_open(loc, mode)
  \/ \E loc \in Locs : h5py_exit(loc)

Spec == Init /\ [][Next]_vars

\* Images in memory, on every data and background data of the samples.
NextDecode ==
  \/ \E i \in Imgs, in \in AllData :
       QPImage_init(i, in.data, in.bg_data, in.data_type, NoFileArg, "a",
                    NoMeta)
  \/ \E i \in Imgs, in \in AllBgData :
       QPImage_set_bg_data(i, in.bg_data, in.data_type)
  \/ \E i \in Imgs, cl \in SomeClears1 : QPImage_clear_bg(i, cl[1], cl[2])
  \/ \E i \in Imgs : QPImage_exit(i)

SpecDecode == Init /\ [][NextDecode]_vars

\* ------------------------------------------------------------------------
\* The claims
\* ------------------------------------------------------------------------

\* C1: when an image's scope ends, its store is flushed and closed if the
\* image opened it itself (from a location, or as the in-memory default),
\* and a handle the image was constructed on is still open.
C1_StoreOwnership ==
  last.op = "exit" =>
    /\ last.file.kind = "path" =>
         /\ files[last.file.loc].mode = "closed"
         /\ files[last.file.loc].disk = files[last.file.loc].cur
    /\ last.file.kind = "handle" => files[last.file.loc].mode # "closed"

\* C2: an image constructed read-only and without data on a location reads
\* the amp and pha that the image which wrote the location in a create
\* mode read when it was closed.
C2_RoundTrip ==
  (/\ last.op = "init"
   /\ last.err = "none"
   /\ last.file.kind = "path"
   /\ last.mode = "r"
   /\ ~last.data.has
   /\ seen[last.file.loc].valid)
  => /\ amp(Cur(last.img)) = seen[last.file.loc].amp
     /\ pha(Cur(last.img)) = seen[last.file.loc].pha

\* A read-only image on a location written before, reading arrays.
C2_Witness ==
  /\ last.op = "init"
  /\ last.err = "none"
  /\ last.file.kind = "path"
  /\ last.mode = "r"
  /\ ~last.data.has
  /\ seen[last.file.loc].valid
  /\ img[last.img].open
  /\ pha(Cur(last.img)).err = "none"
  /\ pha(Cur(last.img)).v = <<1>>

\* C3: clear_bg(data_names, keys) with one field or both and any keys among
\* ramp, data and fit succeeds (on a store that can be written); afterwards
\* every component of a named field under a named key is absent, and raw
\* and every other component are as before.
C3_ClearBackground ==
  [][(last'.op = "clear_bg" /\ last'.names # <<>> /\ ~last'.ro) =>
       LET old == StoreOf(img, files, mem, last'.img)
           new == StoreOf(img', files', mem', last'.img)
       IN  /\ last'.err = "none"
           /\ new.raw = old.raw
           /\ \A f \in Fields, k \in Keys :
                IF InList(last'.names, f) /\ InList(last'.keys, k)
                THEN ~new.bg[f][k].has
                ELSE new.bg[f][k] = old.bg[f][k]]_vars

\* Whether the call l gets as far as writing to the store, on a location
\* that holds the groups gs: it has something to write and its arguments
\* pass the checks made before.
WriteAttempt(l, gs) ==
  CASE l.op = "init" ->
         \/ ~(Fields \subseteq gs)
         \/ l.data.has /\ l.data_type \in DataTypes
         \/ /\ ~l.data.has
            /\ \E a \in AttrNames : l.meta[a].has /\ l.meta[a].v # 0
    [] l.op = "set_bg_data" -> ~l.bg_data.has \/ l.data_type \in DataTypes
    [] l.op = "clear_bg" ->
         /\ l.names # <<>>
         /\ l.keys # <<>>
         /\ \A k \in 1..Len(l.keys) : l.keys[k] \in {"ramp", "data"}
    [] l.op = "copy" -> TRUE
    [] OTHER -> FALSE

\* C4: a call on an image whose store was opened read-only (or that
\* constructs one) leaves the location as it was when it was opened, and
\* fails with a store error if it gets as far as writing.
C4_ReadOnly ==
  [][last'.ro =>
       LET loc == IF last'.op \in {"init", "copy"} THEN last'.file.loc
                  ELSE img[last'.img].on
       IN  /\ loc \in Locs
           /\ files'[loc].exists = files[loc].exists
           /\ files'[loc].disk = files[loc].disk
           /\ files'[loc].cur = files[loc].disk
           /\ WriteAttempt(last', files[loc].disk.groups)
                => last'.err = "store"]_vars

\* A background set on an image attached read-only has failed.
C4_Witness ==
  /\ last.ro
  /\ last.op = "set_bg_data"
  /\ last.bg_data.has
  /\ last.err = "store"
  /\ img[last.img].open
  /\ files[img[last.img].on].exists

\* The store the constructor call l works on, as it opens it among the
\* locations fs: empty when in memory or when mode "w" truncates it.
OpenedStore(l, fs) ==
  IF l.file.kind = "none" THEN EmptyStore
  ELSE IF l.file.kind = "path" /\ l.mode = "w" THEN EmptyStore
  ELSE fs[l.file.loc].cur

\* The store the constructor call l leaves, among the locations fs and the
\* in-memory stores m.
BuiltStore(l, fs, m) ==
  IF l.file.kind = "none" THEN m[l.img] ELSE fs[l.file.loc].cur

\* C7: a constructor call with data, or a set_bg_data call, whose data
\* type is outside the table ends with the encoding error and leaves every
\* raw array and every background component of the store as it was.
C7_Original ==
  [][(/\ last'.data_type \notin DataTypes
      /\ \/ last'.op = "set_bg_data"
         \/ last'.op = "init" /\ last'.data.has) =>
       LET old == IF last'.op = "init" THEN OpenedStore(last', files)
                  ELSE StoreOf(img, files, mem, last'.img)
           new == IF last'.op = "init" THEN BuiltStore(last', files', mem')
                  ELSE StoreOf(img', files', mem', last'.img)
       IN  /\ last'.err = "encoding"
           /\ new.raw = old.raw
           /\ new.bg = old.bg]_vars

\* C7 (amended): with a data type outside the table, a constructor call
\* with data (on a store that is open and has or can be given both groups)
\* and a set_bg_data call with background data end with the encoding error
\* and leave every raw array and background component as it was; a
\* set_bg_data call without background data does not decode and is not
\* rejected for its data type.
C7_InvalidEncoding ==
  [][(/\ last'.data_type \notin DataTypes
      /\ last'.op \in {"init", "set_bg_data"}) =>
       LET old == IF last'.op = "init" THEN OpenedStore(last', files)
                  ELSE StoreOf(img, files, mem, last'.img)
           new == IF last'.op = "init" THEN BuiltStore(last', files', mem')
                  ELSE StoreOf(img', files', mem', last'.img)
       IN  /\ (\/ /\ last'.op = "init"
                  /\ last'.data.has
                  /\ ~(last'.ro /\ ~(Fields \subseteq old.groups))
               \/ /\ last'.op = "set_bg_data"
                  /\ last'.bg_data.has)
              => /\ last'.err = "encoding"
                 /\ new.raw = old.raw
                 /\ new.bg = old.bg
           /\ (last'.op = "set_bg_data" /\ ~last'.bg_data.has)
              => last'.err # "encoding"]_vars

\* A set_bg_data call with background data and a data type outside the
\* table has ended with the encoding error.
C7_Witness ==
  /\ last.op = "set_bg_data"
  /\ last.bg_data.has
  /\ last.data_type \notin DataTypes
  /\ last.err = "encoding"
  /\ img[last.img].open

\* The data component a set_bg_data call with bg_data and data_type asks
\* for, for field f.
Wanted(bg_data, data_type, f) ==
  IF ~bg_data.has THEN None
  ELSE IF f = "phase" THEN Some(get_amp_pha(bg_data.v, data_type).pha)
  ELSE Some(get_amp_pha(bg_data.v, data_type).amp)

\* C8: set_bg_data leaves raw and the ramp and fit components alone, and
\* acts on the data component of both fields together: a call that succeeds
\* leaves the decoded amplitude and phase there (nothing, without
\* background data), and no call changes one of the two alone.  A
\* constructor call with data leaves the background decoded with the data
\* type of the raw data.
C8_BackgroundData ==
  [][/\ last'.op = "set_bg_data" =>
          LET old == StoreOf(img, files, mem, last'.img)
              new == StoreOf(img', files', mem', last'.img)
              done(f) == new.bg[f]["data"] =
                           Wanted(last'.bg_data, last'.data_type, f)
              kept(f) == new.bg[f]["data"] = old.bg[f]["data"]
          IN  /\ new.raw = old.raw
              /\ \A f \in Fields, k \in {"ramp", "fit"} :
                   new.bg[f][k] = old.bg[f][k]
              /\ IF last'.err = "none" THEN \A f \in Fields : done(f)
                 ELSE \A f \in Fields : kept(f)
     /\ (last'.op = "init" /\ last'.data.has /\ last'.err = "none") =>
          LET new == BuiltStore(last', files', mem')
              d   == get_amp_pha(last'.data.v, last'.data_type)
          IN  /\ new.raw["amplitude"] = Some(d.amp)
              /\ new.raw["phase"] = Some(d.pha)
              /\ \A f \in Fields :
                   new.bg[f]["data"] =
                     Wanted(last'.bg_data, last'.data_type, f)]_vars

\* C9: every image has both groups and both raw arrays or neither, and no
\* constructor, set_bg_data or clear_bg call writes the raw array of one
\* field without that of the other.
C9_Together ==
  [][/\ \A i \in Imgs : img'[i].open =>
          LET s == StoreOf(img', files', mem', i)
          IN  /\ Fields \subseteq s.groups
              /\ s.raw["amplitude"].has <=> s.raw["phase"].has
     /\ (last'.op = "init" /\ last'.data.has
           /\ last'.data_type \in DataTypes) =>
          LET old == OpenedStore(last', files)
              new == BuiltStore(last', files', mem')
              d   == get_amp_pha(last'.data.v, last'.data_type)
          IN  \/ new.raw = old.raw
              \/ /\ new.raw["amplitude"] = Some(d.amp)
                 /\ new.raw["phase"] = Some(d.pha)
     /\ last'.op \in {"set_bg_data", "clear_bg"} =>
          StoreOf(img', files', mem', last'.img).raw =
            StoreOf(img, files, mem, last'.img).raw]_vars

\* C10: after a constructor call that succeeds, every attribute it was
\* given (zero included) is in the store with the given value, and every
\* other attribute is as the opened store had it.
C10_Metadata ==
  [][(last'.op = "init" /\ last'.err = "none") =>
       LET old == OpenedStore(last', files)
           new == BuiltStore(last', files', mem')
       IN  \A a \in AttrNames :
             new.attrs[a] = IF last'.meta[a].has THEN last'.meta[a]
                            ELSE old.attrs[a]]_vars

\* The amplitude the table gives for data under a data type of the table.
TableAmp(data, data_type) ==
  [k \in 1..Len(data.a) |->
     CASE data_type = "field" -> np_abs(data.a[k], data.b[k])
       [] data_type = "phase" -> 1
       [] data_type = "phase,amplitude" -> data.b[k]
       [] data_type = "phase,intensity" -> np_sqrt(data.b[k])]

\* The phase the table gives: the unwrapped angle of a field, and the
\* unwrapped first element (or the unwrapped input) otherwise.
TablePha(data, data_type) ==
  unwrap_phase(IF data_type = "field"
               THEN [k \in 1..Len(data.a) |-> np_angle(data.a[k], data.b[k])]
               ELSE data.a)

\* C5: an image constructed with data holds as raw arrays the amplitude
\* and the unwrapped phase of the table, and reads them back as amp and pha
\* while no background component is set; background data is decoded by the
\* same table.
C5_Decoding ==
  /\ (last.op = "init" /\ last.err = "none" /\ last.data.has) =>
       LET c == Cur(last.img)
           a == TableAmp(last.data.v, last.data_type)
           p == TablePha(last.data.v, last.data_type)
       IN  /\ c.raw["amplitude"] = Some(a)
           /\ c.raw["phase"] = Some(p)
           /\ (\A f \in Fields, k \in Keys : ~c.bg[f][k].has) =>
                /\ amp(c) = [err |-> "none",
                             v |-> [k \in 1..Len(a) |-> <<a[k], 1>>]]
                /\ pha(c) = [err |-> "none", v |-> p]
  /\ (last.op \in {"init", "set_bg_data"} /\ last.err = "none"
        /\ last.bg_data.has /\ (last.op = "init" => last.data.has)) =>
       LET c == Cur(last.img)
       IN  /\ c.bg["amplitude"]["data"] =
                Some(TableAmp(last.bg_data.v, last.data_type))
           /\ c.bg["phase"]["data"] =
                Some(TablePha(last.bg_data.v, last.data_type))

\* An image constructed from a phase with a jump of more than half a turn,
\* read back unwrapped.
C5_Witness ==
  /\ last.op = "init"
  /\ last.err = "none"
  /\ last.data_type = "phase"
  /\ last.data = SomeData(Real(<<0, 3>>))
  /\ ~last.bg_data.has
  /\ pha(Cur(last.img)).v = <<0, -1>>
  /\ amp(Cur(last.img)).v = <<<<1, 1>>, <<1, 1>>>>

\* C6: a copy reads the amp, the pha and the attributes of the image it
\* was copied from, which the copying leaves as it was; afterwards a
\* set_bg_data or clear_bg call on one of the two leaves the store of the
\* other as it was.
C6_Copy ==
  [][/\ (last'.op = "copy" /\ last'.err = "none") =>
          LET o == StoreOf(img', files', mem', last'.img)
              c == StoreOf(img', files', mem', last'.to)
          IN  /\ o = StoreOf(img, files, mem, last'.img)
              /\ amp(c) = amp(o)
              /\ pha(c) = pha(o)
              /\ c.attrs = o.attrs
     /\ last'.op \in {"set_bg_data", "clear_bg"} =>
          \A j \in Imgs, k \in Imgs :
            (/\ img[j].open
             /\ img[k].open
             /\ img[j].copy_of = k
             /\ last'.img \in {j, k}) =>
              LET other == IF last'.img = j THEN k ELSE j
              IN  StoreOf(img', files', mem', other) =
                    StoreOf(img, files, mem, other)]_vars

\* The phase background data of a copy has been cleared, and the image it
\* was copied from still has it.
C6_Witness ==
  /\ last.op = "clear_bg"
  /\ last.err = "none"
  /\ img[last.img].open
  /\ img[last.img].copy_of \in Imgs
  /\ img[img[last.img].copy_of].open
  /\ ~Cur(last.img).bg["phase"]["data"].has
  /\ Cur(img[last.img].copy_of).bg["phase"]["data"].has

====
